---- MODULE Spec2Model ----
(***************************************************************************)
(* RCompilationDatabase (src/cpp/session/modules/clang): the resolver of   *)
(* compiler arguments for a translation unit, with the package cache, the  *)
(* sourceCpp (standalone) cache and the precompiled-header store.          *)
(*                                                                         *)
(* A std::string is a sequence of one-character strings, a                 *)
(* std::vector<std::string> a sequence of such sequences.                  *)
(***************************************************************************)
EXTENDS Integers, Sequences, FiniteSets, TLC

\* ------------------------------------------------------------------------
\* Library string operations used by the code (std::string, boost::algorithm)
\* ------------------------------------------------------------------------

RECURSIVE Flatten(_)
\* operator<< / append of several strings in a row
Flatten(ss) ==
    IF ss = <<>> THEN <<>> ELSE Head(ss) \o Flatten(Tail(ss))

MatchAt(s, p, i) ==
    /\ i >= 1
    /\ i + Len(p) - 1 <= Len(s)
    /\ SubSeq(s, i, i + Len(p) - 1) = p

RECURSIVE FindFrom(_, _, _)
\* first position >= i at which p occurs in s, 0 when there is none
FindFrom(s, p, i) ==
    IF i + Len(p) - 1 > Len(s) THEN 0
    ELSE IF MatchAt(s, p, i) THEN i
    ELSE FindFrom(s, p, i + 1)

\* std::string::find: 0 stands for npos
find(s, p) ==
    FindFrom(s, p, 1)

\* boost::algorithm::starts_with
starts_with(s, p) ==
    MatchAt(s, p, 1)

\* boost::algorithm::replace_first (on a copy)
replace_first(s, from, to) ==
    LET i == find(s, from)
    IN  IF i = 0 THEN s
        ELSE SubSeq(s, 1, i - 1) \o to \o SubSeq(s, i + Len(from), Len(s))

\* boost::algorithm::replace_all(arg, "\"", "")
remove_quotes(s) ==
    SelectSeq(s, LAMBDA c : c # "\"")

\* boost::is_space in the classic locale
is_space(c) ==
    c \in {" ", "\t", "\n", "\r"}

RECURSIVE TrimLeft(_)
TrimLeft(s) ==
    IF s # <<>> /\ is_space(Head(s)) THEN TrimLeft(Tail(s)) ELSE s

RECURSIVE TrimRight(_)
TrimRight(s) ==
    IF s # <<>> /\ is_space(s[Len(s)])
    THEN TrimRight(SubSeq(s, 1, Len(s) - 1))
    ELSE s

RECURSIVE Compress(_)
\* every run of spaces is replaced by its first character
Compress(s) ==
    IF Len(s) < 2 THEN s
    ELSE IF is_space(s[1]) /\ is_space(s[2])
         THEN Compress(<<s[1]>> \o SubSeq(s, 3, Len(s)))
         ELSE <<s[1]>> \o Compress(Tail(s))

\* boost::algorithm::trim_all
trim_all(s) ==
    Compress(TrimRight(TrimLeft(s)))

RECURSIVE split(_)
\* boost::algorithm::split(lines, results, is_any_of("\r\n")), no compression
split(text) ==
    LET delims == {i \in 1..Len(text) : text[i] \in {"\r", "\n"}}
    IN  IF delims = {} THEN <<text>>
        ELSE LET i == CHOOSE k \in delims : \A j \in delims : k <= j
             IN  <<SubSeq(text, 1, i - 1)>>
                     \o split(SubSeq(text, i + 1, Len(text)))

\* ------------------------------------------------------------------------
\* The compile-line parser
\* ------------------------------------------------------------------------

\* a variant of FlagLen without the class -f
FlagLen_NoF(line, i) ==
    IF i <= Len(line) /\ line[i] \in {"I", "D", "i"} THEN 1
    ELSE IF MatchAt(line, <<"s","t","d">>, i) THEN 3
    ELSE 0

\* (?:[IDif]|std) at position i: the length matched, 0 when it does not match
FlagLen(line, i) ==
    IF i <= Len(line) /\ line[i] \in {"I", "D", "i", "f"} THEN 1
    ELSE IF MatchAt(line, <<"s","t","d">>, i) THEN 3
    ELSE 0

\* \"[^\"]+\" at position j: the position of the closing quote, 0 when it
\* does not match
QuotedEnd(line, j) ==
    IF j <= Len(line) /\ line[j] = "\""
    THEN LET k == FindFrom(line, <<"\"">>, j + 1)
         IN  IF k > j + 1 THEN k ELSE 0
    ELSE 0

RECURSIVE RunEnd(_, _)
\* [^ ]+ at position j, greedy: the last position matched, j - 1 when none
RunEnd(line, j) ==
    IF j <= Len(line) /\ line[j] # " " THEN RunEnd(line, j + 1) ELSE j - 1

\* (?:\"[^\"]+\"|[^ ]+) at position j: the last position matched, 0 when it
\* does not match
ValueEnd(line, j) ==
    LET q == QuotedEnd(line, j)
        r == RunEnd(line, j)
    IN  IF q # 0 THEN q ELSE IF r >= j THEN r ELSE 0

\* the whole expression at position i: the last position matched, 0 when it
\* does not match there
MatchEnd(line, i) ==
    IF /\ i + 1 <= Len(line)
       /\ line[i] \in {" ", "\t"}
       /\ line[i + 1] = "-"
    THEN LET n == FlagLen(line, i + 2)
         IN  IF n = 0 THEN 0 ELSE ValueEnd(line, i + 2 + n)
    ELSE 0

RECURSIVE ScanArgs(_, _)
\* sregex_token_iterator over the line: the matches left to right, each
\* trimmed and stripped of its quotes
ScanArgs(line, i) ==
    IF i > Len(line) THEN <<>>
    ELSE LET e == MatchEnd(line, i)
         IN  IF e = 0 THEN ScanArgs(line, i + 1)
             ELSE <<remove_quotes(trim_all(SubSeq(line, i, e)))>>
                      \o ScanArgs(line, e + 1)

extractCompileArgs(line) ==
    ScanArgs(line, 1)

\* FilePath::filename and FilePath::stem of a path [dir, stem, ext]
filename(p) ==
    p.stem \o p.ext

stem(p) ==
    p.stem

\* "-c " + srcFile.filename() + " -o " + srcFile.stem()
CompileSignature(srcFile) ==
    <<"-","c"," ">> \o filename(srcFile) \o <<" ","-","o"," ">> \o stem(srcFile)

RECURSIVE CollectArgs(_, _)
CollectArgs(lines, compile) ==
    IF lines = <<>> THEN <<>>
    ELSE (IF find(Head(lines), compile) # 0
          THEN extractCompileArgs(Head(lines))
          ELSE <<>>) \o CollectArgs(Tail(lines), compile)

parseCompilationResults(srcFile, results) ==
    CollectArgs(split(results), CompileSignature(srcFile))

\* a variant of extractStdArg that keeps the last argument that starts with
\* -std=
extractStdArg_Last(args) ==
    LET hits == {i \in 1..Len(args) : starts_with(args[i], <<"-","s","t","d","=">>)}
    IN  IF hits = {} THEN <<>>
        ELSE args[CHOOSE k \in hits : \A j \in hits : k >= j]

\* extractStdArg: the first argument that starts with -std=, else ""
extractStdArg(args) ==
    LET hits == {i \in 1..Len(args) : starts_with(args[i], <<"-","s","t","d","=">>)}
    IN  IF hits = {} THEN <<>>
        ELSE args[CHOOSE k \in hits : \A j \in hits : k <= j]

\* ------------------------------------------------------------------------
\* sourceCppHash: the fingerprint of a standalone file
\* ------------------------------------------------------------------------

RECURSIVE SkipSpace(_, _)
\* \s* at position i, greedy: the first position not matched
SkipSpace(s, i) ==
    IF i <= Len(s) /\ is_space(s[i]) THEN SkipSpace(s, i + 1) ELSE i

\* regex_search of "#include\s+" followed by the literal `header`
IncludeOf(contents, header) ==
    \E i \in 1..Len(contents) :
        /\ MatchAt(contents, <<"#","i","n","c","l","u","d","e">>, i)
        /\ SkipSpace(contents, i + 8) > i + 8
        /\ MatchAt(contents, header, SkipSpace(contents, i + 8))

\* \w
WordChars ==
    { "a", "b", "c", "d", "e", "f", "g", "h", "i", "j", "k", "l", "m",
      "n", "o", "p", "q", "r", "s", "t", "u", "v", "w", "x", "y", "z",
      "A", "B", "C", "D", "E", "F", "G", "H", "I", "J", "K", "L", "M",
      "N", "O", "P", "Q", "R", "S", "T", "U", "V", "W", "X", "Y", "Z",
      "0", "1", "2", "3", "4", "5", "6", "7", "8", "9", "_" }

RECURSIVE WordEnd(_, _)
\* \w* at position i, greedy: the first position not matched
WordEnd(s, i) ==
    IF i <= Len(s) /\ s[i] \in WordChars THEN WordEnd(s, i + 1) ELSE i

\* ^ : the start of the text or of a line (never between \r and \n)
AtLineStart(s, p) ==
    \/ p = 1
    \/ /\ p >= 2
       /\ p <= Len(s) + 1
       /\ s[p - 1] \in {"\n", "\r"}
       /\ ~(s[p - 1] = "\r" /\ p <= Len(s) /\ s[p] = "\n")

\* $ : the end of the text or of a line (never between \r and \n)
AtLineEnd(s, q) ==
    \/ q = Len(s) + 1
    \/ /\ q >= 1
       /\ q <= Len(s)
       /\ s[q] \in {"\n", "\r"}
       /\ ~(s[q] = "\n" /\ q >= 2 /\ s[q - 1] = "\r")

\* \s*$ at position j, greedy with backtracking: the first position after
\* the match, 0 when it does not match
TailEnd(s, j) ==
    LET ends == {q \in j..SkipSpace(s, j) : AtLineEnd(s, q)}
    IN  IF ends = {} THEN 0
        ELSE CHOOSE q \in ends : \A r \in ends : r <= q

\* (\(.*?\))?\]\]\s*$ at position k (the dot matches a line break too):
\* the first position after the match, 0 when it does not match
AttribTailEnd(s, k) ==
    IF k <= Len(s) /\ s[k] = "("
    THEN LET closes == {m \in (k + 1)..Len(s) :
                            /\ s[m] = ")"
                            /\ MatchAt(s, <<"]","]">>, m + 1)
                            /\ TailEnd(s, m + 3) # 0}
         IN  IF closes = {} THEN 0
             ELSE TailEnd(s, (CHOOSE m \in closes :
                                   \A n \in closes : m <= n) + 3)
    ELSE IF MatchAt(s, <<"]","]">>, k) THEN TailEnd(s, k + 2)
    ELSE 0

\* ^\s*//\s*\[\[Rcpp::(\w+)(\(.*?\))?\]\]\s*$ at position p: the first
\* position after the match, 0 when it does not match there
AttribEnd(s, p) ==
    LET a == SkipSpace(s, p)
        b == SkipSpace(s, a + 2)
        k == WordEnd(s, b + 8)
    IN  IF /\ AtLineStart(s, p)
           /\ MatchAt(s, <<"/","/">>, a)
           /\ MatchAt(s, <<"[","[","R","c","p","p",":",":">>, b)
           /\ k > b + 8
        THEN AttribTailEnd(s, k)
        ELSE 0

RECURSIVE ScanAttribs(_, _)
\* sregex_token_iterator over the contents: hash.append(trim_all(match))
ScanAttribs(s, p) ==
    IF p > Len(s) THEN <<>>
    ELSE LET q == AttribEnd(s, p)
         IN  IF q = 0 THEN ScanAttribs(s, p + 1)
             ELSE trim_all(SubSeq(s, p, q - 1)) \o ScanAttribs(s, q)

RECURSIVE Attribs(_, _)
\* the matches themselves, each trimmed, from position p on
Attribs(s, p) ==
    IF p > Len(s) THEN <<>>
    ELSE LET q == AttribEnd(s, p)
         IN  IF q = 0 THEN Attribs(s, p + 1)
             ELSE <<trim_all(SubSeq(s, p, q - 1))>> \o Attribs(s, q)

\* a variant of HashOfContents that does not look for Rcpp11
HashOfContents_NoGate(contents) ==
    LET hash == ScanAttribs(contents, 1)
    IN  IF hash # <<>> THEN hash
        ELSE IF IncludeOf(contents, <<"<","R","c","p","p">>) THEN <<"R","c","p","p">>
        ELSE <<>>

\* the hash of a file's contents
HashOfContents(contents) ==
    IF IncludeOf(contents, <<"<","R","c","p","p","1","1">>) THEN <<>>
    ELSE LET hash == ScanAttribs(contents, 1)
         IN  IF hash # <<>> THEN hash
             ELSE IF IncludeOf(contents, <<"<","R","c","p","p">>) THEN <<"R","c","p","p">>
             ELSE <<>>

\* ------------------------------------------------------------------------
\* The project, the files and the external collaborators
\* ------------------------------------------------------------------------

\* bounds of the model
MaxMTime == 2
MaxVersion == 2

\* r_util::kBuildTypePackage and another build type
kBuildTypePackage == "Package"

BuildTypes ==
    {kBuildTypePackage, "None"}

\* projectContext().buildTargetPath().childPath("src") and its parent
srcDirPath == "/p/src"

SrcDirAbsolutePath == <<"/","p","/","s","r","c">>

PkgDirAbsolutePath == <<"/","p">>

\* the translation units: a C++ and a C source file of the package, and a
\* C++ file outside it
PackageFile ==
    [dir |-> srcDirPath, stem |-> <<"m">>, ext |-> <<".","c","p","p">>]

PackageCFile ==
    [dir |-> srcDirPath, stem |-> <<"n">>, ext |-> <<".","c">>]

ScriptFile ==
    [dir |-> "/w", stem |-> <<"a">>, ext |-> <<".","c","p","p">>]

\* a C++ file of the package whose extension is in upper case
PackageUpperFile ==
    [dir |-> srcDirPath, stem |-> <<"k">>, ext |-> <<".","C","C">>]

Files ==
    {PackageFile, PackageCFile, PackageUpperFile, ScriptFile}

\* srcDir.childPath(generateUuid() + ".cpp")
PackageTempSrcFile ==
    [dir |-> srcDirPath, stem |-> <<"u","1">>, ext |-> <<".","c","p","p">>]

\* module_context::tempFile("clang", "cpp")
ScratchTempSrcFile ==
    [dir |-> "/tmp", stem |-> <<"c","l","a","n","g","1">>, ext |-> <<".","c","p","p">>]

\* the build-configuration files packageBuildFileHash looks at
BuildFiles ==
    {"DESCRIPTION", "Makevars", "Makevars.win"}

\* the contents a standalone file can have (0: the file cannot be read)
FileContents ==
    << <<"i","n","t"," ","f","(",")",";","\n">>,
       <<"#","i","n","c","l","u","d","e"," ","<","R","c","p","p",".","h",">","\n","i","n","t"," ","f","(",")",";","\n">>,
       <<"/","/"," ","[","[","R","c","p","p",":",":","d","e","p","e","n","d","s","(","B","H",")","]","]","\n","#","i","n","c","l","u","d","e"," ","<","R","c","p","p",".","h",">","\n">>,
       <<"#","i","n","c","l","u","d","e"," ","<","R","c","p","p",".","h",">","\n","/","/"," ","[","[","R","c","p","p",":",":","e","x","p","o","r","t","]","]","\n","i","n","t"," ","f","(",")",";","\n">>,
       <<"#","i","n","c","l","u","d","e"," ","<","R","c","p","p","1","1",">","\n","/","/"," ","[","[","R","c","p","p",":",":","e","x","p","o","r","t","]","]","\n","i","n","t"," ","f","(",")",";","\n">>,
       <<"/","/"," ","[","[","R","c","p","p",":",":","d","e","p","e","n","d","s","(","B","H",")","]","]","\n","#","i","n","c","l","u","d","e"," ","<","R","c","p","p",".","h",">","\n","i","n","t"," ","g","(",")",";","\n">>,
       <<"/","/"," ","[","[","R","c","p","p",":",":","d","e","p","e","n","d","s","(","B","H",")","]","]","\n","/","/"," ","[","[","R","c","p","p",":",":","p","l","u","g","i","n","s","(","c","p","p","1","1",")","]","]","\n","#","i","n","c","l","u","d","e"," ","<","R","c","p","p",".","h",">","\n">>,
       <<"/","/"," ","[","[","R","c","p","p",":",":","d","e","p","e","n","d","s","(","B","H",")","]","]","/","/"," ","[","[","R","c","p","p",":",":","p","l","u","g","i","n","s","(","c","p","p","1","1",")","]","]","\n","#","i","n","c","l","u","d","e"," ","<","R","c","p","p",".","h",">","\n">> >>

\* what the build tool can print for a source file
LogNothing(srcFile) ==
    <<"m","a","k","e",":"," ","n","o","t","h","i","n","g"," ","t","o"," ","d","o","\n">>

LogStd(srcFile) ==
    <<"g","+","+"," ","-","s","t","d","=","c","+","+","1","1"," ","-","I",".",".","/","i","n","s","t"," ","-","I","."," ","-","f","p","i","c"," ">>
        \o CompileSignature(srcFile)
        \o <<".","o","\n","g","+","+"," ","-","s","h","a","r","e","d","\n">>

LogPlain(srcFile) ==
    <<"g","c","c"," ","-","I","/","R"," ","-","D","N","D","E","B","U","G"," ">> \o CompileSignature(srcFile) \o <<".","o","\r","\n">>

\* the placeholder of the package is a C++ file: its compile line is the
\* C++ one
BuildLogs(srcFile) ==
    IF srcFile = PackageTempSrcFile
    THEN {LogNothing(srcFile), LogStd(srcFile)}
    ELSE {LogNothing(srcFile), LogStd(srcFile), LogPlain(srcFile)}

EXIT_SUCCESS == 0

EXIT_FAILURE == 1

\* core::system::runProgram / runCommand: the launch fails, or the process
\* exits with a status and its output
ProcessResults(srcFile) ==
    {[error |-> TRUE, exitStatus |-> EXIT_SUCCESS, stdOut |-> <<>>],
     [error |-> FALSE, exitStatus |-> EXIT_FAILURE, stdOut |-> <<>>]}
    \cup {[error |-> FALSE, exitStatus |-> EXIT_SUCCESS, stdOut |-> log] :
              log \in BuildLogs(srcFile)}

\* the files a build tool is run on
CompiledFiles ==
    Files \cup {PackageTempSrcFile, ScratchTempSrcFile}

\* parseCompilationResults(srcFile, stdOut) of every output, tabulated
ParsedResults ==
    [srcFile \in CompiledFiles |->
        [stdOut \in BuildLogs(srcFile) |->
            parseCompilationResults(srcFile, stdOut)]]

\* the annotations of every contents, tabulated
ContentsAttribs ==
    [c \in 1..Len(FileContents) |-> Attribs(FileContents[c], 1)]

\* HashOfContents of every contents, tabulated
ContentsHash ==
    [c \in 1..Len(FileContents) |-> HashOfContents(FileContents[c])]

\* pkgInfo.linkingTo() of the manifests DESCRIPTION can hold
LinkingTo ==
    {<<>>, <<"R","c","p","p">>}

\* .rs.includesForLinkingTo: the include flags, none when the call fails
includesForLinkingTo(linkingTo) ==
    {<<>>, << <<"-","I","/","l","i","b","/">> \o linkingTo \o <<"/","i","n","c","l","u","d","e">> >>}

\* .rs.packagePCH: the package to precompile, "" when none or on an error
packagePCH(linkingTo) ==
    {<<>>, linkingTo}

\* std::ostringstream << time_t
Digit(d) ==
    <<"0", "1", "2", "3", "4", "5", "6", "7", "8", "9">>[d + 1]

RECURSIVE ToDigits(_)
ToDigits(n) ==
    IF n < 10 THEN <<Digit(n)>>
    ELSE ToDigits(n \div 10) \o <<Digit(n % 10)>>

\* ------------------------------------------------------------------------
\* State
\* ------------------------------------------------------------------------

VARIABLES
    buildType,              \* projectContext().config().buildType
    mtime,                  \* lastWriteTime of each build file, 0: no file
    srcDirExists,           \* whether <package>/src exists
    contents,               \* per file, an index of FileContents, 0: unreadable
    clangCompileArgs,       \* clang().compileArgs(true)
    platformVersion,        \* the version .rs.clangPCHPath names the dir by
    pchStore,               \* <scratch>/libclang/precompiled: package ->
                            \*   version directory -> the set of its files
    packageBuildFileHash_,
    packageSrcArgs_,
    packagePCH_,
    sourceCppHashes_,       \* absolute path -> hash
    sourceCppArgsMap_,      \* absolute path -> args
    last,                   \* what the last compileArgsForTranslationUnit did
    probe                   \* a function of this file, its input and its result

envVars ==
    <<buildType, mtime, srcDirExists, contents, clangCompileArgs,
      platformVersion>>

cacheVars ==
    <<packageBuildFileHash_, packageSrcArgs_, packagePCH_,
      sourceCppHashes_, sourceCppArgsMap_>>

vars ==
    <<envVars, pchStore, cacheVars, last, probe>>

\* ------------------------------------------------------------------------
\* The package cache
\* ------------------------------------------------------------------------

buildFileHash(file) ==
    IF mtime[file] # 0 THEN ToDigits(mtime[file]) ELSE <<>>

\* a variant of packageBuildFileHash that looks at DESCRIPTION alone
packageBuildFileHash_DescriptionOnly ==
    buildFileHash("DESCRIPTION")

packageBuildFileHash ==
    buildFileHash("DESCRIPTION")
        \o (IF srcDirExists
            THEN buildFileHash("Makevars") \o buildFileHash("Makevars.win")
            ELSE <<>>)

\* argsForRCmdSHLIB was not called
NoSHLIB ==
    [args |-> <<>>, invoked |-> 0, status |-> "none",
     placeholder |-> "none", removeFailed |-> FALSE]

\* how a run of the build tool on srcFile ended
RunStatus(srcFile, result) ==
    IF result.error THEN "launchError"
    ELSE IF result.exitStatus # EXIT_SUCCESS THEN "exitFailure"
    ELSE IF ParsedResults[srcFile][result.stdOut] = <<>> THEN "noFlags"
    ELSE "ok"

\* a variant of argsForRCmdSHLIB that returns on a failed launch before the
\* placeholder is removed
argsForRCmdSHLIB_ReturnsEarly(tempSrcFile) ==
    LET writable == tempSrcFile.dir # srcDirPath \/ srcDirExists
    IN  {[args |-> <<>>, invoked |-> 0, status |-> "writeError",
          placeholder |-> "none", removeFailed |-> FALSE]}
        \cup
        {[args |-> IF result.error THEN <<>>
                   ELSE IF result.exitStatus # EXIT_SUCCESS THEN <<>>
                   ELSE ParsedResults[tempSrcFile][result.stdOut],
          invoked |-> 1,
          status |-> RunStatus(tempSrcFile, result),
          placeholder |-> IF result.error \/ removeError THEN "left"
                          ELSE "removed",
          removeFailed |-> ~result.error /\ removeError] :
            result \in {r \in ProcessResults(tempSrcFile) : writable},
            removeError \in BOOLEAN}

\* argsForRCmdSHLIB: the parsed flags, the number of processes run, how the
\* run ended, what became of the placeholder file ("none": it could not be
\* written) and whether tempSrcFile.remove() returned an error
argsForRCmdSHLIB(tempSrcFile) ==
    LET writable == tempSrcFile.dir # srcDirPath \/ srcDirExists
    IN  {[args |-> <<>>, invoked |-> 0, status |-> "writeError",
          placeholder |-> "none", removeFailed |-> FALSE]}
        \cup
        {[args |-> IF result.error THEN <<>>
                   ELSE IF result.exitStatus # EXIT_SUCCESS THEN <<>>
                   ELSE ParsedResults[tempSrcFile][result.stdOut],
          invoked |-> 1,
          status |-> RunStatus(tempSrcFile, result),
          placeholder |-> IF removeError THEN "left" ELSE "removed",
          removeFailed |-> removeError] :
            result \in {r \in ProcessResults(tempSrcFile) : writable},
            removeError \in BOOLEAN}

\* the two path substitutions on a copy of a parsed flag
SubstitutePaths(arg) ==
    replace_first(
        replace_first(arg, <<"-","I",".",".">>, <<"-","I">> \o PkgDirAbsolutePath),
        <<"-","I",".">>, <<"-","I">> \o SrcDirAbsolutePath)

\* the loop over the parsed flags, tabulated for every list R CMD SHLIB on
\* the placeholder can yield
SubstitutedArgs ==
    [compileArgs \in {ParsedResults[PackageTempSrcFile][stdOut] :
                          stdOut \in BuildLogs(PackageTempSrcFile)} |->
        [i \in 1..Len(compileArgs) |-> SubstitutePaths(compileArgs[i])]]

SubstituteAll(compileArgs) ==
    IF compileArgs \in DOMAIN SubstitutedArgs
    THEN SubstitutedArgs[compileArgs]
    ELSE [i \in 1..Len(compileArgs) |-> SubstitutePaths(compileArgs[i])]

\* a variant of PackageArgs that puts the parsed flags before the includes
PackageArgs_FlagsFirst(clangArgs, includes, compileArgs) ==
    clangArgs \o SubstituteAll(compileArgs) \o includes

\* the list updateForCurrentPackage builds: the arguments of libclang, the
\* includes implied by LinkingTo, the parsed flags with their paths
\* substituted
PackageArgs(clangArgs, includes, compileArgs) ==
    clangArgs \o includes \o SubstituteAll(compileArgs)

\* the members in the order updateForCurrentPackage assigns them
PackageWrites ==
    <<"packageSrcArgs_", "packagePCH_", "packageBuildFileHash_">>

\* the cache as it is, with the path taken
PackageKept(path, reads, shlib) ==
    [hash |-> packageBuildFileHash_, args |-> packageSrcArgs_,
     pch |-> packagePCH_, path |-> path, manifestReads |-> reads,
     shlib |-> shlib, writes |-> <<>>]

\* a variant of UpdateWithManifest that records the hash also when no flag
\* was parsed
UpdateWithManifest_HashAlways(hash, linkingTo) ==
    {IF shlib.args = <<>>
     THEN [PackageKept("kept", 1, shlib) EXCEPT !.hash = hash]
     ELSE [hash |-> hash,
           args |-> PackageArgs(clangCompileArgs, includes, shlib.args),
           pch |-> pch, path |-> "stored", manifestReads |-> 1,
           shlib |-> shlib, writes |-> PackageWrites] :
        includes \in (IF linkingTo # <<>>
                      THEN includesForLinkingTo(linkingTo)
                      ELSE {<<>>}),
        pch \in packagePCH(linkingTo),
        shlib \in argsForRCmdSHLIB(PackageTempSrcFile)}

\* a variant of UpdateWithManifest that stores whatever the parser yields
UpdateWithManifest_StoreAlways(hash, linkingTo) ==
    {[hash |-> hash,
      args |-> PackageArgs(clangCompileArgs, includes, shlib.args),
      pch |-> pch, path |-> "stored", manifestReads |-> 1,
      shlib |-> shlib, writes |-> PackageWrites] :
        includes \in (IF linkingTo # <<>>
                      THEN includesForLinkingTo(linkingTo)
                      ELSE {<<>>}),
        pch \in packagePCH(linkingTo),
        shlib \in argsForRCmdSHLIB(PackageTempSrcFile)}

\* updateForCurrentPackage once the manifest is read: the includes implied
\* by LinkingTo, R CMD SHLIB on a placeholder, the substitutions, the store
UpdateWithManifest(hash, linkingTo) ==
    {IF shlib.args = <<>>
     THEN PackageKept("kept", 1, shlib)
     ELSE [hash |-> hash,
           args |-> PackageArgs(clangCompileArgs, includes, shlib.args),
           pch |-> pch, path |-> "stored", manifestReads |-> 1,
           shlib |-> shlib, writes |-> PackageWrites] :
        includes \in (IF linkingTo # <<>>
                      THEN includesForLinkingTo(linkingTo)
                      ELSE {<<>>}),
        pch \in packagePCH(linkingTo),
        shlib \in argsForRCmdSHLIB(PackageTempSrcFile)}

\* a variant of updateForCurrentPackage that never compares the hashes
updateForCurrentPackage_NoCheck ==
    {PackageKept("manifestError", 1, NoSHLIB)}
    \cup UNION {UpdateWithManifest(packageBuildFileHash, linkingTo) :
                   linkingTo \in {l \in LinkingTo :
                                     mtime["DESCRIPTION"] # 0}}

\* updateForCurrentPackage: every way the call can end, as the cache it
\* leaves and what it did
updateForCurrentPackage ==
    LET hash == packageBuildFileHash
    IN  IF hash = packageBuildFileHash_
        THEN {PackageKept("hit", 0, NoSHLIB)}
        ELSE {PackageKept("manifestError", 1, NoSHLIB)}
             \cup UNION {UpdateWithManifest(hash, linkingTo) :
                            linkingTo \in {l \in LinkingTo :
                                              mtime["DESCRIPTION"] # 0}}

\* ------------------------------------------------------------------------
\* The sourceCpp cache
\* ------------------------------------------------------------------------

\* srcFile.absolutePath(), the key of the two maps
absolutePath(filePath) ==
    filePath

\* sourceCppHash: "" when the file cannot be read
sourceCppHash(srcPath) ==
    IF contents[srcPath] = 0 THEN <<>>
    ELSE ContentsHash[contents[srcPath]]

\* argsForSourceCpp: the flags, the number of processes run and how the run
\* ended
argsForSourceCpp(srcFile) ==
    {[args |-> IF result.error THEN <<>>
               ELSE IF result.exitStatus # EXIT_SUCCESS THEN <<>>
               ELSE clangCompileArgs
                        \o ParsedResults[srcFile][result.stdOut],
      invoked |-> 1,
      status |-> RunStatus(srcFile, result)] :
        result \in ProcessResults(srcFile)}

\* the maps as they are, with the path taken
SourceCppKept(path, invoked, status) ==
    [hashes |-> sourceCppHashes_, argsMap |-> sourceCppArgsMap_,
     path |-> path, invoked |-> invoked, status |-> status]

\* a variant of StoreSourceCppArgs that stores what the build tool yields
\* even when it is empty
StoreSourceCppArgs_StoreEmpty(srcFile, hash) ==
    LET name == absolutePath(srcFile)
    IN  {[hashes |-> (name :> hash) @@ sourceCppHashes_,
          argsMap |-> (name :> r.args) @@ sourceCppArgsMap_,
          path |-> "stored", invoked |-> r.invoked,
          status |-> r.status] :
           r \in argsForSourceCpp(srcFile)}

\* the end of updateForSourceCpp: the build tool is run and what it yields
\* is stored, unless it is empty
StoreSourceCppArgs(srcFile, hash) ==
    LET name == absolutePath(srcFile)
    IN  {IF r.args # <<>>
         THEN [hashes |-> (name :> hash) @@ sourceCppHashes_,
               argsMap |-> (name :> r.args) @@ sourceCppArgsMap_,
               path |-> "stored", invoked |-> r.invoked,
               status |-> r.status]
         ELSE SourceCppKept("kept", r.invoked, r.status) :
           r \in argsForSourceCpp(srcFile)}

\* a variant of updateForSourceCpp that never compares the hashes
updateForSourceCpp_NoCheck(srcFile) ==
    IF sourceCppHash(srcFile) = <<>>
    THEN {SourceCppKept("noHash", 0, "none")}
    ELSE StoreSourceCppArgs(srcFile, sourceCppHash(srcFile))

\* a variant of updateForSourceCpp that saves the hash before it knows
\* whether the build tool yields arguments
updateForSourceCpp_HashFirst(srcFile) ==
    LET hash == sourceCppHash(srcFile)
        name == absolutePath(srcFile)
    IN  IF name \in DOMAIN sourceCppHashes_ /\ sourceCppHashes_[name] = hash
        THEN {SourceCppKept("hit", 0, "none")}
        ELSE IF hash = <<>>
        THEN {SourceCppKept("noHash", 0, "none")}
        ELSE {[r EXCEPT !.hashes = (name :> hash) @@ sourceCppHashes_] :
                r \in StoreSourceCppArgs(srcFile, hash)}

\* updateForSourceCpp: every way the call can end, as the maps it leaves
\* and what it did
updateForSourceCpp(srcFile) ==
    LET hash == sourceCppHash(srcFile)
        name == absolutePath(srcFile)
    IN  IF name \in DOMAIN sourceCppHashes_ /\ sourceCppHashes_[name] = hash
        THEN {SourceCppKept("hit", 0, "none")}
        ELSE IF hash = <<>>
        THEN {SourceCppKept("noHash", 0, "none")}
        ELSE StoreSourceCppArgs(srcFile, hash)

\* ------------------------------------------------------------------------
\* The precompiled-header store
\* ------------------------------------------------------------------------

\* the packages a precompiled header is kept for
PchPackages ==
    {<<"R","c","p","p">>}

Versions ==
    1..MaxVersion

\* userScratchPath().childPath("libclang/precompiled/" + pkgName)
precompiledDir(pkgName) ==
    <<"/","s","/","l","i","b","c","l","a","n","g","/","p","r","e","c","o","m","p","i","l","e","d","/">> \o pkgName

\* .rs.clangPCHPath(pkgName, clangVersion): the name of the version directory
platformDir(version) ==
    <<"v">> \o ToDigits(version)

\* platformPath.childPath(pkgName + stdArg + ".pch").absolutePath()
pchPath(pkgName, version, stdArg) ==
    Flatten(<<precompiledDir(pkgName), <<"/">>, platformDir(version), <<"/">>,
              pkgName, stdArg, <<".","p","c","h">> >>)

\* a root with no version directory
EmptyRoot ==
    [v \in {} |-> {}]

\* precompiledHeaderArgs was not called
NoPch ==
    [store |-> pchStore, args |-> <<>>, shlib |-> NoSHLIB, path |-> "none",
     wiped |-> FALSE, pkgName |-> <<>>, pchFile |-> <<>>]

\* the call returns early with no flags, leaving the store as `store`
PchEarlyReturn(store, path, wiped) ==
    [store |-> store, args |-> <<>>, shlib |-> NoSHLIB, path |-> path,
     wiped |-> wiped]

\* a variant of CreatePchIfNeeded that builds the header whether the file
\* exists or not
CreatePchIfNeeded_Rebuild(pkgName, stdArg, root, wiped) ==
    LET v == platformVersion
        pch == pkgName \o stdArg \o <<".","p","c","h">>
        cpp == pkgName \o stdArg \o <<".","c","p","p">>
        flags == << <<"-","i","n","c","l","u","d","e","-","p","c","h">>, pchPath(pkgName, v, stdArg) >>
        with(files) ==
            [pchStore EXCEPT ![pkgName] = (v :> files) @@ root]
    IN  {[store |-> with(root[v] \cup {cpp, pch}), args |-> flags,
          shlib |-> shlib, path |-> "built", wiped |-> wiped] :
            shlib \in {[s EXCEPT !.args = <<>>, !.status = "none"] :
                          s \in argsForRCmdSHLIB(ScratchTempSrcFile)}}

\* the part of precompiledHeaderArgs after the version directory exists:
\* `root` is the package's root then, `wiped` whether it was removed
CreatePchIfNeeded(pkgName, stdArg, root, wiped) ==
    LET v == platformVersion
        pch == pkgName \o stdArg \o <<".","p","c","h">>
        cpp == pkgName \o stdArg \o <<".","c","p","p">>
        flags == << <<"-","i","n","c","l","u","d","e","-","p","c","h">>, pchPath(pkgName, v, stdArg) >>
        with(files) ==
            [pchStore EXCEPT ![pkgName] = (v :> files) @@ root]
    IN  IF pch \in root[v]
        THEN {[store |-> with(root[v]), args |-> flags, shlib |-> NoSHLIB,
               path |-> "reused", wiped |-> wiped]}
        ELSE {PchEarlyReturn(with(root[v]), "cppWriteError", wiped)}
             \cup
             UNION {
               { \* clang().parseTranslationUnit returns NULL
                 [store |-> with(root[v] \cup {cpp}), args |-> <<>>,
                  shlib |-> shlib, path |-> "parseError", wiped |-> wiped],
                 \* clang().saveTranslationUnit fails: logged only
                 [store |-> with(root[v] \cup {cpp}), args |-> flags,
                  shlib |-> shlib, path |-> "saveError", wiped |-> wiped],
                 [store |-> with(root[v] \cup {cpp, pch}), args |-> flags,
                  shlib |-> shlib, path |-> "built", wiped |-> wiped] } :
               shlib \in {[s EXCEPT !.args = <<>>, !.status = "none"] :
                             s \in argsForRCmdSHLIB(ScratchTempSrcFile)} }

\* a variant of precompiledHeaderArgs that creates the version directory
\* without removing the root first
precompiledHeaderArgs_NoRemove(pkgName, stdArg) ==
    LET root == pchStore[pkgName]
        v == platformVersion
    IN  {PchEarlyReturn(pchStore, "platformDirError", FALSE)}
        \cup
        (IF v \in DOMAIN root
         THEN CreatePchIfNeeded(pkgName, stdArg, root, FALSE)
         ELSE {PchEarlyReturn(pchStore, "ensureError", FALSE)}
              \cup
              CreatePchIfNeeded(pkgName, stdArg, (v :> {}) @@ root, FALSE))

\* precompiledHeaderArgs: every way the call can end, as the store it
\* leaves, the flags it returns and what it did
precompiledHeaderArgs(pkgName, stdArg) ==
    LET root == pchStore[pkgName]
        v == platformVersion
    IN  {PchEarlyReturn(pchStore, "platformDirError", FALSE)}
        \cup
        (IF v \in DOMAIN root
         THEN CreatePchIfNeeded(pkgName, stdArg, root, FALSE)
         ELSE \* precompiledDir.removeIfExists() fails: nothing is removed
              {PchEarlyReturn(pchStore, "removeError", FALSE) :
                  x \in {w \in {1} : DOMAIN root # {}}}
              \cup
              \* platformPath.ensureDirectory() fails after the removal
              {PchEarlyReturn([pchStore EXCEPT ![pkgName] = EmptyRoot],
                              "ensureError", DOMAIN root # {})}
              \cup
              CreatePchIfNeeded(pkgName, stdArg, (v :> {}) @@ EmptyRoot,
                                DOMAIN root # {}))

\* ------------------------------------------------------------------------
\* The resolver
\* ------------------------------------------------------------------------

\* a variant of IsPackageSource that does not look at the build type
IsPackageSource_AnyBuildType(filePath) ==
    filePath.dir = srcDirPath

\* buildType is the package type and filePath lies under the src directory
IsPackageSource(filePath) ==
    /\ buildType = kBuildTypePackage
    /\ filePath.dir = srcDirPath

UpperCase == <<"A","B","C","D","E","F","G","H","I","J","K","L","M","N","O","P","Q","R","S","T","U","V","W","X","Y","Z">>

LowerCase == <<"a","b","c","d","e","f","g","h","i","j","k","l","m","n","o","p","q","r","s","t","u","v","w","x","y","z">>

ToLower(c) ==
    IF \E i \in 1..26 : UpperCase[i] = c
    THEN LowerCase[CHOOSE i \in 1..26 : UpperCase[i] = c]
    ELSE c

extensionLowerCase(filePath) ==
    [i \in 1..Len(filePath.ext) |-> ToLower(filePath.ext[i])]

\* a variant of isCppFile that compares the extension as it is written
isCppFile_CaseSensitive(filePath) ==
    filePath.ext \in {<<".","c","c">>, <<".","c","p","p">>}

isCppFile(filePath) ==
    extensionLowerCase(filePath) \in {<<".","c","c">>, <<".","c","p","p">>}

\* the first half of compileArgsForTranslationUnit: the cache is brought up
\* to date and the arguments and the package of the PCH are read from it
ResolveArgs(filePath) ==
    IF IsPackageSource(filePath)
    THEN {[kind |-> "package",
           hash |-> u.hash, srcArgs |-> u.args, pch |-> u.pch,
           hashes |-> sourceCppHashes_, argsMap |-> sourceCppArgsMap_,
           args |-> u.args, packagePCH |-> u.pch,
           path |-> u.path, status |-> u.shlib.status,
           manifestReads |-> u.manifestReads,
           invoked |-> u.shlib.invoked,
           placeholder |-> u.shlib.placeholder,
           removeFailed |-> u.shlib.removeFailed,
           writes |-> u.writes] :
             u \in updateForCurrentPackage}
    ELSE {LET name == absolutePath(filePath)
              found == name \in DOMAIN u.argsMap
          IN  [kind |-> "sourceCpp",
               hash |-> packageBuildFileHash_, srcArgs |-> packageSrcArgs_,
               pch |-> packagePCH_,
               hashes |-> u.hashes, argsMap |-> u.argsMap,
               args |-> IF found THEN u.argsMap[name] ELSE <<>>,
               packagePCH |-> IF found THEN <<"R","c","p","p">> ELSE <<>>,
               path |-> u.path, status |-> u.status,
               manifestReads |-> 0,
               invoked |-> u.invoked, placeholder |-> "none",
               removeFailed |-> FALSE, writes |-> <<>>] :
             u \in updateForSourceCpp(filePath)}

\* the second half: the precompiled header, for a C++ file with arguments
\* and a package to precompile
PchStep(filePath, args, pkgName) ==
    IF args = <<>> THEN {NoPch}
    ELSE IF pkgName # <<>> /\ isCppFile(filePath)
    THEN {[pkgName |-> pkgName,
           pchFile |-> pkgName \o extractStdArg(args) \o <<".","p","c","h">> ] @@ p :
             p \in precompiledHeaderArgs(pkgName, extractStdArg(args))}
    ELSE {NoPch}

\* no function is being looked at on its own
NoProbe ==
    [fn |-> "none"]

\* no call since the environment last changed; `touched` tells that the
\* change is one build file written again right after a call that left the
\* package cache up to date
NoCall ==
    [called |-> FALSE, touched |-> FALSE, edited |-> 0]

\* what a call follows: "call", a call for the same file with no change of
\* the environment between the two; "touch", a change with `touched`
Follows(filePath) ==
    IF last.called
    THEN (IF last.file = filePath THEN "call" ELSE "other")
    ELSE IF last.touched THEN "touch"
    ELSE IF last.edited # 0 /\ last.file = filePath THEN "edit"
    ELSE "other"

\* a variant of compileArgsForTranslationUnit that appends the flags of the
\* precompiled header to packageSrcArgs_ itself
compileArgsForTranslationUnit_AppendsToCache(filePath) ==
    \E u \in ResolveArgs(filePath) :
        \E p \in PchStep(filePath, u.args, u.packagePCH) :
            /\ packageBuildFileHash_' = u.hash
            /\ packageSrcArgs_' = u.srcArgs \o p.args
            /\ packagePCH_' = u.pch
            /\ sourceCppHashes_' = u.hashes
            /\ sourceCppArgsMap_' = u.argsMap
            /\ pchStore' = p.store
            /\ last' = [called |-> TRUE,
                        file |-> filePath, kind |-> u.kind,
                        path |-> u.path, status |-> u.status,
                        manifestReads |-> u.manifestReads,
                        invoked |-> u.invoked,
                        placeholder |-> u.placeholder,
                        removeFailed |-> u.removeFailed,
                        writes |-> u.writes,
                        resolved |-> u.args,
                        pchPkg |-> p.pkgName,
                        pchFile |-> p.pchFile,
                        pchPath |-> p.path,
                        wiped |-> p.wiped,
                        pchInvoked |-> p.shlib.invoked,
                        pchPlaceholder |-> p.shlib.placeholder,
                        pchRemoveFailed |-> p.shlib.removeFailed,
                        pchArgs |-> p.args,
                        args |-> u.args \o p.args,
                        after |-> Follows(filePath),
                        editedFrom |-> IF Follows(filePath) = "edit"
                                       THEN last.edited ELSE 0]
            /\ UNCHANGED <<envVars, probe>>

compileArgsForTranslationUnit(filePath) ==
    \E u \in ResolveArgs(filePath) :
        \E p \in PchStep(filePath, u.args, u.packagePCH) :
            /\ packageBuildFileHash_' = u.hash
            /\ packageSrcArgs_' = u.srcArgs
            /\ packagePCH_' = u.pch
            /\ sourceCppHashes_' = u.hashes
            /\ sourceCppArgsMap_' = u.argsMap
            /\ pchStore' = p.store
            /\ last' = [called |-> TRUE,
                        file |-> filePath, kind |-> u.kind,
                        path |-> u.path, status |-> u.status,
                        manifestReads |-> u.manifestReads,
                        invoked |-> u.invoked,
                        placeholder |-> u.placeholder,
                        removeFailed |-> u.removeFailed,
                        writes |-> u.writes,
                        resolved |-> u.args,
                        pchPkg |-> p.pkgName,
                        pchFile |-> p.pchFile,
                        pchPath |-> p.path,
                        wiped |-> p.wiped,
                        pchInvoked |-> p.shlib.invoked,
                        pchPlaceholder |-> p.shlib.placeholder,
                        pchRemoveFailed |-> p.shlib.removeFailed,
                        pchArgs |-> p.args,
                        args |-> u.args \o p.args,
                        after |-> Follows(filePath),
                        editedFrom |-> IF Follows(filePath) = "edit"
                                       THEN last.edited ELSE 0]
            /\ UNCHANGED <<envVars, probe>>

\* ------------------------------------------------------------------------
\* The environment
\* ------------------------------------------------------------------------

\* a build file is written again: its modification time changes
TouchBuildFile(file) ==
    /\ mtime[file] # 0
    /\ \E t \in 1..MaxMTime :
        /\ t # mtime[file]
        /\ mtime' = [mtime EXCEPT ![file] = t]
    /\ last' = [called |-> FALSE,
                touched |-> /\ last.called
                            /\ last.kind = "package"
                            /\ last.path \in {"stored", "hit"},
                edited |-> 0]
    /\ UNCHANGED probe
    /\ UNCHANGED <<buildType, srcDirExists, contents, clangCompileArgs,
                   platformVersion, pchStore, cacheVars>>

CreateBuildFile(file) ==
    /\ mtime[file] = 0
    /\ file = "DESCRIPTION" \/ srcDirExists
    /\ \E t \in 1..MaxMTime : mtime' = [mtime EXCEPT ![file] = t]
    /\ last' = NoCall
    /\ UNCHANGED probe
    /\ UNCHANGED <<buildType, srcDirExists, contents, clangCompileArgs,
                   platformVersion, pchStore, cacheVars>>

RemoveBuildFile(file) ==
    /\ mtime[file] # 0
    /\ mtime' = [mtime EXCEPT ![file] = 0]
    /\ last' = NoCall
    /\ UNCHANGED probe
    /\ UNCHANGED <<buildType, srcDirExists, contents, clangCompileArgs,
                   platformVersion, pchStore, cacheVars>>

CreateSrcDir ==
    /\ ~srcDirExists
    /\ srcDirExists' = TRUE
    /\ last' = NoCall
    /\ UNCHANGED probe
    /\ UNCHANGED <<buildType, mtime, contents, clangCompileArgs,
                   platformVersion, pchStore, cacheVars>>

\* the src directory is removed with the build files in it
RemoveSrcDir ==
    /\ srcDirExists
    /\ srcDirExists' = FALSE
    /\ mtime' = [mtime EXCEPT !["Makevars"] = 0, !["Makevars.win"] = 0]
    /\ last' = NoCall
    /\ UNCHANGED probe
    /\ UNCHANGED <<buildType, contents, clangCompileArgs,
                   platformVersion, pchStore, cacheVars>>

\* a file is edited, removed or made unreadable
EditFileTo(file, choices) ==
    /\ \E c \in choices :
        /\ c # contents[file]
        /\ contents' = [contents EXCEPT ![file] = c]
    /\ last' = IF /\ last.called
                  /\ last.kind = "sourceCpp"
                  /\ last.file = file
                  /\ last.path \in {"stored", "hit"}
               THEN [called |-> FALSE, touched |-> FALSE,
                     edited |-> contents[file], file |-> file]
               ELSE NoCall
    /\ UNCHANGED probe
    /\ UNCHANGED <<buildType, mtime, srcDirExists, clangCompileArgs,
                   platformVersion, pchStore, cacheVars>>

EditFile(file) ==
    EditFileTo(file, 0..Len(FileContents))

\* the file is unreadable, has no annotation, or has export or one depends
\* annotation
PlainContents ==
    0..5

\* the file has depends and plugins annotations and an include of Rcpp
AnnotatedContents ==
    {3, 6, 7, 8}

\* the build type of the project is changed in its configuration
ChangeBuildType ==
    /\ \E t \in BuildTypes :
        /\ t # buildType
        /\ buildType' = t
    /\ last' = NoCall
    /\ UNCHANGED probe
    /\ UNCHANGED <<mtime, srcDirExists, contents, clangCompileArgs,
                   platformVersion, pchStore, cacheVars>>

\* R, the package or libclang is upgraded: .rs.clangPCHPath names another
\* directory
ChangeToolchain ==
    /\ \E v \in Versions :
        /\ v # platformVersion
        /\ platformVersion' = v
    /\ last' = NoCall
    /\ UNCHANGED probe
    /\ UNCHANGED <<buildType, mtime, srcDirExists, contents,
                   clangCompileArgs, pchStore, cacheVars>>

\* the session ends and a new one starts: the caches are those of a new
\* RCompilationDatabase, the files and the store stay
Restart ==
    /\ packageBuildFileHash_' = <<>>
    /\ packageSrcArgs_' = <<>>
    /\ packagePCH_' = <<>>
    /\ sourceCppHashes_' = <<>>
    /\ sourceCppArgsMap_' = <<>>
    /\ last' = NoCall
    /\ UNCHANGED probe
    /\ UNCHANGED <<envVars, pchStore>>

\* ------------------------------------------------------------------------
\* Functions on their own: the input is drawn at the start, the step applies
\* the function to it
\* ------------------------------------------------------------------------

\* the longest flag, in parts
MaxParts == 4

FlagParts ==
    { <<"-","I">>, <<"-","D">>, <<".">>, <<".",".">>, <<"/","i","n","c">>, <<"X","=">> }

RECURSIVE PartsUpTo(_, _)
PartsUpTo(parts, n) ==
    IF n = 0 THEN {<<>>}
    ELSE LET shorter == PartsUpTo(parts, n - 1)
         IN  shorter \cup {p \o s : p \in parts, s \in shorter}

\* flags as the parser yields them: -I or -D and a value that is not empty
ParsedFlags ==
    {head \o tail : head \in { <<"-","I">>, <<"-","D">> },
                    tail \in PartsUpTo(FlagParts, MaxParts - 1) \ {<<>>}}

Pending(fn, inputs) ==
    {[fn |-> fn, done |-> FALSE, input |-> x] : x \in inputs}

Applied(output) ==
    [fn |-> probe.fn, done |-> TRUE, input |-> probe.input,
     output |-> output]

\* the body of the loop over compileArgs in updateForCurrentPackage
SubstituteOne ==
    /\ probe.fn = "SubstitutePaths"
    /\ ~probe.done
    /\ probe' = Applied(SubstitutePaths(probe.input))
    /\ UNCHANGED <<envVars, pchStore, cacheVars, last>>

\* the longest build log, in items: an item is a flag or the end of a line
MaxItems == 4

\* the flags of a build log
LogFlags ==
    { <<"-","I","/","x">>, <<"-","D","A">>, <<"-","i","s","y","s","t","e","m">>, <<"-","s","t","d","=","c","+","+","1","1">>, <<"-","f","p","i","c">>, <<"-","O","2">>,
      <<"-","I","\"","a"," ","b","\"">>, <<"-","I">> }

\* the flags of a build log of a package: include directories relative to
\* src and others
PackageLogFlags ==
    { <<"-","I",".",".","/","i","n","s","t">>, <<"-","D","A">>, <<"-","O","2">> }

\* a line ends with the compilation of the placeholder or with something
\* else
LogItems(flags) ==
    {[kind |-> "flag", text |-> t] : t \in flags}
    \cup {[kind |-> "compile",
           text |-> CompileSignature(PackageTempSrcFile) \o <<".","o","\n">> ],
          [kind |-> "other", text |-> <<"-","s","h","a","r","e","d","\r","\n">> ]}

RECURSIVE LogText(_, _)
\* the text of a build log: every line is a command and its items
LogText(items, atStart) ==
    IF items = <<>> THEN <<>>
    ELSE (IF atStart THEN <<"c","c">> ELSE <<>>)
             \o <<" ">> \o Head(items).text
             \o LogText(Tail(items), Head(items).kind # "flag")

\* the flag classes of the expression of extractCompileArgs
FlagClasses ==
    { <<"-","I">>, <<"-","D">>, <<"-","i">>, <<"-","f">>, <<"-","s","t","d">> }

\* a flag of one of the classes, with a value attached to it or not
HasClass(text, classes) ==
    \E c \in classes : starts_with(text, c)

HasValue(text, classes) ==
    \E c \in classes : starts_with(text, c) /\ Len(text) > Len(c)

RECURSIVE FlagsOfLog(_, _, _)
\* the accepted flags of the lines that end with the compilation, in the
\* order of the log and without their quotes; `line` holds those of the
\* line being read
FlagsOfLog(items, line, accepted) ==
    IF items = <<>> THEN <<>>
    ELSE LET item == Head(items)
         IN  IF item.kind = "flag"
             THEN FlagsOfLog(Tail(items),
                             IF item.text \in accepted
                             THEN Append(line, remove_quotes(item.text))
                             ELSE line,
                             accepted)
             ELSE (IF item.kind = "compile" THEN line ELSE <<>>)
                      \o FlagsOfLog(Tail(items), <<>>, accepted)

\* parseCompilationResults on the output of R CMD SHLIB
ParseResults ==
    /\ probe.fn = "parseCompilationResults"
    /\ ~probe.done
    /\ probe' = Applied(parseCompilationResults(PackageTempSrcFile,
                                                LogText(probe.input, TRUE)))
    /\ UNCHANGED <<envVars, pchStore, cacheVars, last>>

\* updateForCurrentPackage from the manifest on, with the output of R CMD
\* SHLIB given: the list it builds, stored when flags were parsed
BuildPackageArgs ==
    /\ probe.fn = "updateForCurrentPackage"
    /\ ~probe.done
    /\ \E linkingTo \in LinkingTo :
         \E includes \in (IF linkingTo # <<>>
                          THEN includesForLinkingTo(linkingTo)
                          ELSE {<<>>}) :
            LET compileArgs ==
                    parseCompilationResults(PackageTempSrcFile,
                                            LogText(probe.input, TRUE))
            IN  probe' = Applied([includes |-> includes,
                                  compileArgs |-> compileArgs,
                                  stored |-> compileArgs # <<>>,
                                  args |-> IF compileArgs # <<>>
                                           THEN PackageArgs(clangCompileArgs,
                                                            includes,
                                                            compileArgs)
                                           ELSE <<>>])
    /\ UNCHANGED <<envVars, pchStore, cacheVars, last>>

\* the longest argument list extractStdArg is applied to
MaxArgs == 3

\* the arguments of such a list
StdArgs ==
    { <<"-","s","t","d","=","c","+","+","1","1">>, <<"-","s","t","d","=","g","n","u","+","+","1","4">>, <<"-","s","t","d","l","i","b","=","l","i","b","c","+","+">>, <<"-","I","/","x">>,
      <<"-","D","S","=","-","s","t","d","=","c","9","9">> }

\* extractStdArg on the arguments of a C++ file and the path of the
\* precompiled header of Rcpp that precompiledHeaderArgs looks for
ExtractStd ==
    /\ probe.fn = "extractStdArg"
    /\ ~probe.done
    /\ LET stdArg == extractStdArg(probe.input)
       IN  probe' = Applied([stdArg |-> stdArg,
                             pchPath |-> pchPath( <<"R","c","p","p">>, platformVersion,
                                                 stdArg)])
    /\ UNCHANGED <<envVars, pchStore, cacheVars, last>>

\* the longest file, in lines
MaxLines == 3

\* the lines of a standalone file
SourceLines ==
    { <<"#","i","n","c","l","u","d","e"," ","<","R","c","p","p","1","1",">","\n">>, <<"#","i","n","c","l","u","d","e"," ","<","R","c","p","p",".","h",">","\n">>,
      <<"/","/"," ","[","[","R","c","p","p",":",":","d","e","p","e","n","d","s","(","B","H",")","]","]","\n">>, <<"/","/"," ","[","[","R","c","p","p",":",":","e","x","p","o","r","t","]","]","\n">>,
      <<"i","n","t"," ","f","(",")",";","\n">>, <<"#","i","n","c","l","u","d","e"," ","<","R","c","p","p","E","i","g","e","n",".","h",">","\n">> }

\* sourceCppHash once the file is read
HashContents ==
    /\ probe.fn = "sourceCppHash"
    /\ ~probe.done
    /\ probe' = Applied(HashOfContents(probe.input))
    /\ UNCHANGED <<envVars, pchStore, cacheVars, last>>

\* ------------------------------------------------------------------------
\* Specifications
\* ------------------------------------------------------------------------

\* a session that starts: files on disk, empty caches, an empty store
InitSession ==
    /\ buildType = kBuildTypePackage
    /\ mtime = [f \in BuildFiles |-> IF f = "DESCRIPTION" THEN 1 ELSE 0]
    /\ srcDirExists = TRUE
    /\ contents = [f \in Files |-> 3]
    /\ clangCompileArgs \in {<<>>, << <<"-","I","/","c","l","a","n","g","/","i","n","c","l","u","d","e">> >>}
    /\ platformVersion = 1
    /\ pchStore = [p \in PchPackages |-> EmptyRoot]
    /\ packageBuildFileHash_ = <<>>
    /\ packageSrcArgs_ = <<>>
    /\ packagePCH_ = <<>>
    /\ sourceCppHashes_ = <<>>
    /\ sourceCppArgsMap_ = <<>>
    /\ last = NoCall

Init ==
    InitSession /\ probe = NoProbe

Next ==
    \/ \E f \in Files : compileArgsForTranslationUnit(f)
    \/ \E f \in BuildFiles : TouchBuildFile(f)
    \/ \E f \in BuildFiles : CreateBuildFile(f)
    \/ \E f \in BuildFiles : RemoveBuildFile(f)
    \/ CreateSrcDir
    \/ RemoveSrcDir
    \/ \E f \in Files : EditFile(f)
    \/ ChangeToolchain
    \/ ChangeBuildType
    \/ Restart

Spec ==
    Init /\ [][Next]_vars

\* the package cache: a package project whose build files change, with
\* the base arguments of libclang that are not empty
InitPackage ==
    Init /\ clangCompileArgs # <<>>

NextPackage ==
    \/ compileArgsForTranslationUnit(PackageCFile)
    \/ \E f \in BuildFiles : TouchBuildFile(f)
    \/ \E f \in BuildFiles : CreateBuildFile(f)
    \/ \E f \in BuildFiles : RemoveBuildFile(f)
    \/ CreateSrcDir
    \/ RemoveSrcDir
    \/ Restart

SpecPackage ==
    InitPackage /\ [][NextPackage]_vars

\* the sourceCpp cache: a file outside the package that is edited
NextSourceCpp ==
    \/ compileArgsForTranslationUnit(ScriptFile)
    \/ EditFileTo(ScriptFile, PlainContents)
    \/ Restart

SpecSourceCpp ==
    Init /\ [][NextSourceCpp]_vars

\* the precompiled-header store: the toolchain changes under both caches
NextPch ==
    \/ \E f \in {PackageFile, ScriptFile} : compileArgsForTranslationUnit(f)
    \/ ChangeToolchain
    \/ Restart

SpecPch ==
    InitPackage /\ [][NextPch]_vars

\* the path substitutions on one parsed flag
InitSubstitute ==
    InitSession /\ probe \in Pending("SubstitutePaths", ParsedFlags)

NextSubstitute ==
    SubstituteOne

SpecSubstitute ==
    InitSubstitute /\ [][NextSubstitute]_vars

\* the parser on a build log
Logs(flags) ==
    PartsUpTo({<<item>> : item \in LogItems(flags)}, MaxItems)

InitParser ==
    /\ InitSession
    /\ clangCompileArgs # <<>>
    /\ probe \in Pending("parseCompilationResults", Logs(LogFlags))
                  \cup Pending("updateForCurrentPackage",
                               Logs(PackageLogFlags))

NextParser ==
    \/ ParseResults
    \/ BuildPackageArgs

SpecParser ==
    InitParser /\ [][NextParser]_vars

\* the resolver: C and C++ files of the package and a standalone file
NextResolver ==
    \/ \E f \in {PackageCFile, PackageUpperFile, ScriptFile} :
          compileArgsForTranslationUnit(f)
    \/ Restart

SpecResolver ==
    InitPackage /\ [][NextResolver]_vars

\* the -std= argument of an argument list
InitStdArg ==
    /\ InitSession
    /\ probe \in Pending("extractStdArg",
                          PartsUpTo({<<arg>> : arg \in StdArgs}, MaxArgs))

NextStdArg ==
    ExtractStd

SpecStdArg ==
    InitStdArg /\ [][NextStdArg]_vars

\* the fingerprint of the contents of a standalone file
InitHash ==
    /\ InitSession
    /\ probe \in Pending("sourceCppHash", PartsUpTo(SourceLines, MaxLines))

NextHash ==
    HashContents

SpecHash ==
    InitHash /\ [][NextHash]_vars

\* the annotations of a standalone file are edited
NextAnnotations ==
    \/ compileArgsForTranslationUnit(ScriptFile)
    \/ EditFileTo(ScriptFile, AnnotatedContents)
    \/ Restart

SpecAnnotations ==
    Init /\ [][NextAnnotations]_vars

\* the two caches: a file under src and a file outside, in a project whose
\* build type changes
NextIndependence ==
    \/ \E f \in {PackageFile, ScriptFile} : compileArgsForTranslationUnit(f)
    \/ ChangeBuildType
    \/ Restart

SpecIndependence ==
    InitPackage /\ [][NextIndependence]_vars

\* ------------------------------------------------------------------------
\* Properties
\* ------------------------------------------------------------------------

\* C1: whenever compileArgsForTranslationUnit is called for a file outside
\* the package whose freshly computed sourceCppHash is empty, it returns the
\* empty list and runs no process, also when an entry was stored for the
\* path while the file still had a hash.
C1_EmptyHashResolvesToNothing ==
    (/\ last.called
     /\ last.kind = "sourceCpp"
     /\ sourceCppHash(last.file) = <<>>)
        => /\ last.args = <<>>
           /\ last.invoked = 0
           /\ last.pchInvoked = 0

C3_TouchRunsBuildTool ==
    (/\ last.called
     /\ last.kind = "package"
     /\ last.after = "touch")
        => /\ last.path # "hit"
           /\ last.invoked = 1

\* C3, amended: after a package resolution that left the cache up to date,
\* writing one build file again changes packageBuildFileHash: the next
\* update is no cache hit, it reads the manifest again and, unless the
\* manifest cannot be read or the placeholder cannot be written, it runs
\* the build tool again.
C3_TouchInvalidates ==
    (/\ last.called
     /\ last.kind = "package"
     /\ last.after = "touch")
        => /\ last.path # "hit"
           /\ last.manifestReads = 1
           /\ \/ last.invoked = 1
              \/ last.path = "manifestError"
              \/ last.status = "writeError"

\* the update after a build file was written again ran the build tool and
\* stored what it yielded
C3_Witness ==
    /\ last.called
    /\ last.kind = "package"
    /\ last.after = "touch"
    /\ last.path = "stored"
    /\ last.invoked = 1

\* C4: when updateForCurrentPackage finds another hash and the manifest
\* cannot be read, the placeholder cannot be written, the build tool is not
\* launched or exits with a failure, or the parser finds no flags,
\* packageBuildFileHash_, packageSrcArgs_ and packagePCH_ stay as they were
\* and the resolver returns the arguments stored last.
C4_PackageFailSoft ==
    [][(/\ last'.called
        /\ last'.kind = "package"
        /\ \/ last'.path = "manifestError"
           \/ last'.status \in {"writeError", "launchError",
                                "exitFailure", "noFlags"})
           => /\ packageBuildFileHash_' = packageBuildFileHash_
              /\ packageSrcArgs_' = packageSrcArgs_
              /\ packagePCH_' = packagePCH_
              /\ last'.resolved = packageSrcArgs_]_vars

\* the build tool failed on a changed package and the arguments of the
\* resolution before are returned
C4_Witness ==
    /\ last.called
    /\ last.kind = "package"
    /\ last.status = "exitFailure"
    /\ packageBuildFileHash_ # <<>>
    /\ packageBuildFileHash_ # packageBuildFileHash
    /\ last.resolved = packageSrcArgs_
    /\ last.resolved # <<>>

\* C5: when the hash of a file outside the package is not empty and not the
\* stored one and the build tool is not launched or exits with a failure,
\* the hash and the arguments stored for the path stay as they were, the
\* resolver returns the arguments stored before, and the next call for the
\* file runs the build tool again.
C5_SourceCppFailSoft ==
    [][/\ (/\ last'.called
           /\ last'.kind = "sourceCpp"
           /\ last'.status \in {"launchError", "exitFailure"})
              => /\ sourceCppHashes_' = sourceCppHashes_
                 /\ sourceCppArgsMap_' = sourceCppArgsMap_
                 /\ last'.resolved =
                        (IF absolutePath(last'.file)
                                \in DOMAIN sourceCppArgsMap_
                         THEN sourceCppArgsMap_[absolutePath(last'.file)]
                         ELSE <<>>)
       /\ (/\ last'.called
           /\ last'.kind = "sourceCpp"
           /\ last'.after = "call"
           /\ last.status \in {"launchError", "exitFailure"})
              => last'.invoked = 1]_vars

\* the build tool fails again on an edited file and the arguments of the
\* contents before are returned
C5_Witness ==
    /\ last.called
    /\ last.kind = "sourceCpp"
    /\ last.after = "call"
    /\ last.status = "launchError"
    /\ last.invoked = 1
    /\ last.resolved # <<>>

\* C6: when the build tool runs for a file outside the package and the
\* parser finds no flags in its output, the update stores nothing for the
\* path.
C6_NoFlagsStoresNothing ==
    (/\ last.called
     /\ last.kind = "sourceCpp"
     /\ last.status = "noFlags")
        => last.path = "kept"

\* C7: after every call of precompiledHeaderArgs the root of every package
\* holds at most one version directory; when the directory of the current
\* version is missing, either the removal of the root fails and the store
\* stays as it was, or no directory of another version is left.
C7_OneVersionDirectory ==
    [][/\ \A p \in PchPackages : Cardinality(DOMAIN pchStore'[p]) <= 1
       /\ (/\ last'.called
           /\ last'.pchPath \notin {"none", "platformDirError"}
           /\ platformVersion \notin DOMAIN pchStore[last'.pchPkg])
              => IF last'.pchPath = "removeError"
                 THEN pchStore' = pchStore
                 ELSE DOMAIN pchStore'[last'.pchPkg]
                          \subseteq {platformVersion}]_vars

\* the directory of an older version was removed and the header was built
\* in the directory of the current one
C7_Witness ==
    /\ last.called
    /\ last.pchPath = "built"
    /\ last.wiped
    /\ DOMAIN pchStore[last.pchPkg] = {platformVersion}

\* C8: precompiledHeaderArgs returns the flags only if the precompiled
\* header exists at the path when it returns; it returns no flags when the
\* translation unit cannot be parsed or cannot be saved.
C8_FlagsOnlyWithArtifact ==
    last.called
        => /\ last.pchArgs # <<>>
                => /\ platformVersion \in DOMAIN pchStore[last.pchPkg]
                   /\ last.pchFile
                          \in pchStore[last.pchPkg][platformVersion]
           /\ last.pchPath \in {"parseError", "saveError"}
                => last.pchArgs = <<>>

\* C9, as stated: the placeholder argsForRCmdSHLIB wrote does not exist
\* when it returns, however the run of the build tool ended.
C9_PlaceholderGone ==
    last.called => last.placeholder # "left"

\* C9, amended: the placeholder argsForRCmdSHLIB wrote does not exist when
\* it returns, however the run of the build tool ended, unless its removal
\* failed, which is logged only.
C9_PlaceholderGoneUnlessRemoveFails ==
    last.called
        => /\ last.placeholder = "left" => last.removeFailed
           /\ last.invoked = 1 => last.placeholder \in {"removed", "left"}

\* the build tool was not launched and the placeholder is removed
C9_Witness ==
    /\ last.called
    /\ last.status = "launchError"
    /\ last.placeholder = "removed"

\* C10: whenever packageBuildFileHash equals packageBuildFileHash_,
\* updateForCurrentPackage runs no process, reads no manifest and leaves
\* packageBuildFileHash_, packageSrcArgs_ and packagePCH_ as they were, and
\* the resolver returns packageSrcArgs_.
C10_PackageCacheHit ==
    [][(/\ last'.called
        /\ last'.kind = "package"
        /\ packageBuildFileHash = packageBuildFileHash_)
           => /\ last'.path = "hit"
              /\ last'.invoked = 0
              /\ last'.manifestReads = 0
              /\ last'.placeholder = "none"
              /\ packageBuildFileHash_' = packageBuildFileHash_
              /\ packageSrcArgs_' = packageSrcArgs_
              /\ packagePCH_' = packagePCH_
              /\ last'.resolved = packageSrcArgs_]_vars

\* a call on the package whose build files are as they were at the last
\* resolution returns the stored arguments
C10_Witness ==
    /\ last.called
    /\ last.kind = "package"
    /\ last.path = "hit"
    /\ last.manifestReads = 0
    /\ packageBuildFileHash_ = packageBuildFileHash
    /\ last.resolved = packageSrcArgs_
    /\ last.resolved # <<>>

\* C11: a parsed flag that starts with -I.. is stored as -I, the absolute
\* path of the parent of the src directory and the rest of the flag; one
\* that starts with -I. but not with -I.. is stored as -I, the absolute path
\* of the src directory and the rest of the flag; every other flag is stored
\* as it is.
C11_PrefixRewriting ==
    (probe.fn = "SubstitutePaths" /\ probe.done) =>
        LET arg == probe.input
        IN  probe.output =
              IF starts_with(arg, <<"-","I",".",".">> )
              THEN <<"-","I">> \o PkgDirAbsolutePath \o SubSeq(arg, 5, Len(arg))
              ELSE IF starts_with(arg, <<"-","I",".">> )
              THEN <<"-","I">> \o SrcDirAbsolutePath \o SubSeq(arg, 4, Len(arg))
              ELSE arg

C13_ArgumentOrder ==
    (probe.fn = "updateForCurrentPackage" /\ probe.done) =>
        LET flags == FlagsOfLog(probe.input, <<>>,
                                {t \in PackageLogFlags :
                                    HasValue(t, FlagClasses)})
        IN  /\ probe.output.compileArgs = flags
            /\ probe.output.stored =>
                  probe.output.args =
                      clangCompileArgs \o probe.output.includes
                          \o [i \in 1..Len(flags) |->
                                 SubstitutePaths(flags[i])]
            /\ (\A i \in 1..Len(probe.input) :
                    probe.input[i].kind # "compile") =>
                  probe.output.compileArgs = <<>> /\ ~probe.output.stored

\* two lines hold the compilation, each with a flag, and LinkingTo implies
\* an include: the stored list is the argument of libclang, the include,
\* the flag of the first line and the flag of the second
C13_Witness ==
    /\ probe.fn = "updateForCurrentPackage"
    /\ probe.done
    /\ Len(probe.input) = 4
    /\ probe.input[1].text = <<"-","D","A">>
    /\ probe.input[2].kind = "compile"
    /\ probe.input[3].text = <<"-","I",".",".","/","i","n","s","t">>
    /\ probe.input[4].kind = "compile"
    /\ probe.output.includes # <<>>
    /\ probe.output.args =
          clangCompileArgs \o probe.output.includes
              \o << <<"-","D","A">>, <<"-","I">> \o PkgDirAbsolutePath \o <<"/","i","n","s","t">> >>

\* C14: compileArgsForTranslationUnit calls precompiledHeaderArgs exactly
\* when the list read from the cache is not empty, a package to precompile
\* was identified and the extension of the file, in lower case, is .cc or
\* .cpp; it then returns the cached list followed by the flags
\* precompiledHeaderArgs returned, and for every other file it returns the
\* cached list as it is.
C14_PchGating ==
    last.called =>
        LET name == absolutePath(last.file)
            found == name \in DOMAIN sourceCppArgsMap_
            cached == IF last.kind = "package" THEN packageSrcArgs_
                      ELSE IF found THEN sourceCppArgsMap_[name]
                      ELSE <<>>
            identified == IF last.kind = "package" THEN packagePCH_ # <<>>
                          ELSE found
            eligible == /\ cached # <<>>
                        /\ identified
                        /\ extensionLowerCase(last.file)
                               \in { <<".","c","c">>, <<".","c","p","p">> }
        IN  /\ (last.pchPath # "none") <=> eligible
            /\ last.args = cached \o last.pchArgs
            /\ ~eligible => last.pchArgs = <<>> /\ last.pchInvoked = 0

\* the package cache holds arguments and a package to precompile: the file
\* with the extension .CC gets the flags of the header after the cached
\* list
C14_Witness ==
    /\ last.called
    /\ last.file = PackageUpperFile
    /\ packageSrcArgs_ # <<>>
    /\ last.pchArgs # <<>>
    /\ last.args = packageSrcArgs_ \o last.pchArgs

\* C15: extractStdArg returns the first element of the list that starts
\* with -std=, whatever -std= elements follow it, and the empty string when
\* no element starts with -std=; the name of the precompiled header looked
\* for is the package name, that value and .pch.
C15_FirstStdArg ==
    (probe.fn = "extractStdArg" /\ probe.done) =>
        LET args == probe.input
            isStd(i) == starts_with(args[i], <<"-","s","t","d","=">> )
        IN  /\ (\A i \in 1..Len(args) : ~isStd(i)) =>
                  probe.output.stdArg = <<>>
            /\ \A i \in 1..Len(args) :
                  (isStd(i) /\ \A j \in 1..(i - 1) : ~isStd(j)) =>
                      probe.output.stdArg = args[i]
            /\ probe.output.pchPath =
                  precompiledDir( <<"R","c","p","p">> ) \o <<"/">>
                      \o platformDir(platformVersion) \o <<"/","R","c","p","p">>
                      \o probe.output.stdArg \o <<".","p","c","h">>

\* two -std= elements after an element that only looks like one: the first
\* of the two is returned
C15_Witness ==
    /\ probe.fn = "extractStdArg"
    /\ probe.done
    /\ probe.input = << <<"-","s","t","d","l","i","b","=","l","i","b","c","+","+">>, <<"-","s","t","d","=","g","n","u","+","+","1","4">>, <<"-","s","t","d","=","c","+","+","1","1">> >>
    /\ probe.output.stdArg = <<"-","s","t","d","=","g","n","u","+","+","1","4">>

\* C16: for every file contents that holds `#include <Rcpp11`,
\* sourceCppHash returns the empty string, whatever Rcpp annotations and
\* includes of Rcpp the contents hold as well.
C16_Rcpp11Gating ==
    (probe.fn = "sourceCppHash" /\ probe.done) =>
        (find(probe.input, <<"#","i","n","c","l","u","d","e"," ","<","R","c","p","p","1","1">> ) # 0 =>
            probe.output = <<>>)

\* an annotation, an include of Rcpp and an include of Rcpp11 after them:
\* the hash is empty
C16_Witness ==
    /\ probe.fn = "sourceCppHash"
    /\ probe.done
    /\ probe.input = <<"/","/"," ","[","[","R","c","p","p",":",":","d","e","p","e","n","d","s","(","B","H",")","]","]","\n","#","i","n","c","l","u","d","e"," ","<","R","c","p","p",".","h",">","\n","#","i","n","c","l","u","d","e"," ","<","R","c","p","p","1","1",">","\n">>
    /\ probe.output = <<>>

\* C17 as stated: whenever precompiledHeaderArgs is called while the
\* current version directory exists and holds the header for the package
\* and the -std= argument, it writes no file, runs no process, does not
\* parse, leaves the store as it is and returns -include-pch and the path
\* of the header.
C17_ReuseReturnsFlags ==
    [][(/\ last'.called
        /\ last'.pchPath # "none"
        /\ platformVersion \in DOMAIN pchStore[last'.pchPkg]
        /\ last'.pchFile \in pchStore[last'.pchPkg][platformVersion])
       => (/\ last'.pchPath = "reused"
           /\ last'.pchInvoked = 0
           /\ pchStore' = pchStore
           /\ last'.pchArgs =
                 << <<"-","i","n","c","l","u","d","e","-","p","c","h">>,
                    precompiledDir(last'.pchPkg) \o <<"/">>
                        \o platformDir(platformVersion) \o <<"/">>
                        \o last'.pchFile >>)]_vars

\* C17: whenever precompiledHeaderArgs is called while the current version
\* directory exists and holds the header for the package and the -std=
\* argument, it writes no file, runs no process, does not parse and leaves
\* the store as it is; it returns -include-pch and the path of the header,
\* unless the call of .rs.clangPCHPath fails: then it returns no flag.
C17_ReuseUnlessNoPlatformDir ==
    [][(/\ last'.called
        /\ last'.pchPath # "none"
        /\ platformVersion \in DOMAIN pchStore[last'.pchPkg]
        /\ last'.pchFile \in pchStore[last'.pchPkg][platformVersion])
       => (/\ last'.pchPath \in {"reused", "platformDirError"}
           /\ last'.pchInvoked = 0
           /\ pchStore' = pchStore
           /\ last'.pchArgs =
                 IF last'.pchPath = "reused"
                 THEN << <<"-","i","n","c","l","u","d","e","-","p","c","h">>,
                         precompiledDir(last'.pchPkg) \o <<"/">>
                             \o platformDir(platformVersion) \o <<"/">>
                             \o last'.pchFile >>
                 ELSE <<>>)]_vars

\* a call found the header in the current version directory and returned
\* the two flags
C17_Witness ==
    /\ last.called
    /\ last.pchPath = "reused"
    /\ last.pchInvoked = 0
    /\ Len(last.pchArgs) = 2
    /\ last.pchFile \in pchStore[last.pchPkg][platformVersion]

\* C18: after a call that left the entry of a standalone file up
\* to date, an edit that changes the sequence of the annotations of the
\* file to another sequence that is not empty, the includes of Rcpp being
\* the same, makes the next call run the build tool; an edit that leaves
\* the sequence as it is makes the next call run no build tool.
C18_AnnotationEditInvalidates ==
    (/\ last.called
     /\ last.after = "edit"
     /\ contents[last.file] # 0) =>
        LET old == last.editedFrom
            new == contents[last.file]
            sameIncludes ==
                \A header \in { <<"<","R","c","p","p">>, <<"<","R","c","p","p","1","1">> } :
                    IncludeOf(FileContents[old], header)
                        <=> IncludeOf(FileContents[new], header)
        IN  /\ (/\ ContentsAttribs[new] # ContentsAttribs[old]
                /\ ContentsAttribs[new] # <<>>
                /\ sameIncludes) => last.invoked = 1
            /\ ContentsAttribs[new] = ContentsAttribs[old] =>
                  last.invoked = 0

\* C19: after every step the map of the hashes and the map of the
\* arguments have the same paths as keys, no stored hash is empty and no
\* stored argument list is empty; no call removes a key.
C19_MapsInStep ==
    [][/\ DOMAIN sourceCppHashes_' = DOMAIN sourceCppArgsMap_'
       /\ \A name \in DOMAIN sourceCppHashes_' :
             /\ sourceCppHashes_'[name] # <<>>
             /\ sourceCppArgsMap_'[name] # <<>>
       /\ last'.called =>
             /\ DOMAIN sourceCppHashes_ \subseteq DOMAIN sourceCppHashes_'
             /\ DOMAIN sourceCppArgsMap_ \subseteq DOMAIN sourceCppArgsMap_']_vars

\* the entry of the standalone file was stored by an earlier call, and the
\* call after an edit found no hash and left it where it is
C19_Witness ==
    /\ last.called
    /\ last.path = "noHash"
    /\ DOMAIN sourceCppHashes_ = {absolutePath(ScriptFile)}
    /\ DOMAIN sourceCppArgsMap_ = {absolutePath(ScriptFile)}

\* C20: in every state neither packageSrcArgs_ nor a list of
\* sourceCppArgsMap_ holds -include-pch or the path of a precompiled
\* header, and the list a call returns holds -include-pch at most once,
\* however many calls were made for the file before.
C20_CachesHoldNoPchFlags ==
    LET isPchFlag(arg) ==
            \/ arg = <<"-","i","n","c","l","u","d","e","-","p","c","h">>
            \/ /\ Len(arg) >= 4
               /\ SubSeq(arg, Len(arg) - 3, Len(arg)) = <<".","p","c","h">>
        clean(args) == \A i \in 1..Len(args) : ~isPchFlag(args[i])
    IN  /\ clean(packageSrcArgs_)
        /\ \A name \in DOMAIN sourceCppArgsMap_ :
              clean(sourceCppArgsMap_[name])
        /\ last.called =>
              Cardinality({i \in 1..Len(last.args) :
                              last.args[i] = <<"-","i","n","c","l","u","d","e","-","p","c","h">> }) <= 1

\* a second call in a row for a C++ file of the package returned the two
\* flags of the header after the cached list, once
C20_Witness ==
    /\ last.called
    /\ last.after = "call"
    /\ last.kind = "package"
    /\ last.path = "hit"
    /\ last.pchPath = "reused"
    /\ last.args = packageSrcArgs_ \o last.pchArgs
    /\ Len(last.pchArgs) = 2

C22_CachesIndependent ==
    [][last'.called =>
         LET name == absolutePath(last'.file)
         IN  IF /\ buildType = kBuildTypePackage
                /\ last'.file.dir = srcDirPath
             THEN /\ last'.kind = "package"
                  /\ UNCHANGED <<sourceCppHashes_, sourceCppArgsMap_>>
                  /\ last'.resolved = packageSrcArgs_'
             ELSE /\ last'.kind = "sourceCpp"
                  /\ UNCHANGED <<packageBuildFileHash_, packageSrcArgs_,
                                 packagePCH_>>
                  /\ last'.manifestReads = 0
                  /\ last'.placeholder = "none"
                  /\ last'.writes = <<>>
                  /\ last'.resolved =
                        IF name \in DOMAIN sourceCppArgsMap_'
                        THEN sourceCppArgsMap_'[name]
                        ELSE <<>>]_vars

\* the file under src has an entry in the maps, stored while the project
\* was no package, and a package cache that holds another list: the call
\* made in the package project returns the list of the package cache
C22_Witness ==
    /\ last.called
    /\ last.file = PackageFile
    /\ last.kind = "package"
    /\ absolutePath(PackageFile) \in DOMAIN sourceCppArgsMap_
    /\ packageSrcArgs_ # <<>>
    /\ sourceCppArgsMap_[absolutePath(PackageFile)] # packageSrcArgs_
    /\ last.resolved = packageSrcArgs_

====
